---------------------------- MODULE Spec2Model ----------------------------
(***************************************************************************)
(* A model of PinCLI_SPI.ino: the serial line editor (read_input), the     *)
(* strtok-based token cursor (get_token / parse_cmd), the command table    *)
(* and dispatcher (execute) and the nine command handlers, with the pin    *)
(* and SPI primitives they call recorded as a trace.                       *)
(*                                                                         *)
(* Bytes are integers 0..255.  The two C buffers are functions from        *)
(* offsets to bytes; pointers into line_buf are offsets (cp, olds).        *)
(***************************************************************************)
EXTENDS Integers, Sequences, FiniteSets, TLC

(***************************************************************************)
(* Program constants                                                       *)
(***************************************************************************)
LINE_BUF_SIZE == 64
ARG_BUF_SIZE == 16
CR_CHAR == 13
LF_CHAR == 10
BKSP_CHAR == 8
BELL_CHAR == 7
SPACE_CHAR == 32
SPI_SSPIN == 10

\* Arduino core values of the symbolic arguments the handlers pass on
LOW == 0
HIGH == 1
INPUT == 0
OUTPUT == 1
INPUT_PULLUP == 2
LSBFIRST == 0
MSBFIRST == 1
SPI_MODE0 == 0
SPI_MODE1 == 4
SPI_MODE2 == 8
SPI_MODE3 == 12
SPI_ORDER == MSBFIRST
SPI_MODE == SPI_MODE0

\* The strtok save pointer before the first strtok(line_buf, ...) call
NULLPTR == -1

\* String literals of the program, as bytes
S_delay == <<100, 101, 108, 97, 121>>
S_help == <<104, 101, 108, 112>>
S_pmode == <<112, 109, 111, 100, 101>>
S_pr == <<112, 114>>
S_pw == <<112, 119>>
S_spiend == <<115, 112, 105, 101, 110, 100>>
S_spirw == <<115, 112, 105, 114, 119>>
S_spirw16 == <<115, 112, 105, 114, 119, 49, 54>>
S_spistart == <<115, 112, 105, 115, 116, 97, 114, 116>>
S_i == <<105>>
S_ip == <<105, 112>>
S_o == <<111>>
S_lsbfirst == <<108, 115, 98, 102, 105, 114, 115, 116>>
S_msbfirst == <<109, 115, 98, 102, 105, 114, 115, 116>>
S_mode0 == <<109, 111, 100, 101, 48>>
S_mode1 == <<109, 111, 100, 101, 49>>
S_mode2 == <<109, 111, 100, 101, 50>>
S_mode3 == <<109, 111, 100, 101, 51>>
CLI_PROMPT == <<62, 32>>

\* commands_str[i] and commands_func[i] of the source are element i+1 here
commands_str ==
  << S_delay, S_help, S_pmode, S_pr, S_pw, S_spiend, S_spirw, S_spirw16, S_spistart >>
\* A handler table with the two transfer handlers the other way round
commands_func_swapped ==
  << "cmd_delay", "cmd_help", "cmd_pmode", "cmd_pr", "cmd_pw",
     "cmd_spiend", "cmd_spirw16", "cmd_spirw", "cmd_spistart" >>

commands_func ==
  << "cmd_delay", "cmd_help", "cmd_pmode", "cmd_pr", "cmd_pw",
     "cmd_spiend", "cmd_spirw", "cmd_spirw16", "cmd_spistart" >>
num_commands == Len(commands_str)
pmode_args == << S_i, S_ip, S_o >>
spistart_arg1 == << S_lsbfirst, S_msbfirst >>
spistart_arg2 == << S_mode0, S_mode1, S_mode2, S_mode3 >>

(***************************************************************************)
(* Serial output and hardware calls, as events                             *)
(*   out : [t |-> "byte", v |-> b]  one byte written (echo, prompt, bell)  *)
(*         [t |-> "msg",  v |-> n]  Serial.println of the literal on       *)
(*                                  source line n (or the help text of the *)
(*                                  function starting on line n)           *)
(*         [t |-> "num",  v |-> n]  Serial.println of the number n         *)
(*   hw  : [op |-> name, a |-> .., b |-> ..]  one pin / SPI / delay call   *)
(***************************************************************************)
MSG_VERSION == 231
MSG_TOKEN_TOO_LONG == 395
MSG_EMPTY_COMMAND == 412
MSG_INVALID_COMMAND == 425
MSG_PW_VALUE_ERROR == 688
MSG_HELP_HEADER == 505
MSG_HELP_BLANK == 513
MSG_HELP_HINT == 514
HELP_delay == 517
HELP_pmode == 529
HELP_pr == 537
HELP_pw == 545
HELP_spiend == 553
HELP_spirw == 558
HELP_spirw16 == 566
HELP_spistart == 574

OutByte(b) == [t |-> "byte", v |-> b]
OutMsg(n) == [t |-> "msg", v |-> n]
OutNum(n) == [t |-> "num", v |-> n]
OutBytes(s) == [i \in 1..Len(s) |-> OutByte(s[i])]
HwOp(name, x, y) == [op |-> name, a |-> x, b |-> y]

VARIABLES
  line_buf,    \* char line_buf[LINE_BUF_SIZE]
  cp,          \* cp - line_buf
  args,        \* char args[ARG_BUF_SIZE]
  olds,        \* strtok's saved scan position (offset into line_buf) or NULLPTR
  error_flag,  \* bool error_flag
  pc,          \* where the control loop is: "read", "parse", "execute", "finish"
  wire,        \* bytes typed and not yet received by the serial port
  rx,          \* bytes received and not yet returned by Serial.read()
  out,         \* what the most recent program step wrote to Serial
  hw,          \* the pin / SPI / delay calls of the most recent program step
  called,      \* the handlers the most recent program step invoked
  toks,        \* the get_token calls of the current command cycle, in order
  spi_active,  \* SPI library: inside beginTransaction .. endTransaction
  ss_level,    \* output latch of the slave-select pin
  fed,         \* history: bytes read since the line was last started empty
  ovf,         \* history: positions in fed of the bytes that overflowed the line
  cmdline,     \* history: the line as it was when CR completed it
  last_spi,    \* history: the last of spistart / spiend executed ("none" before)
  ev,          \* history: the branch the most recent program step took
  ret          \* history: what execute() returned in this command cycle

vars == << line_buf, cp, args, olds, error_flag, pc, wire, rx, out, hw, called, toks,
           spi_active, ss_level, fed, ovf, cmdline, last_spi, ev, ret >>

(***************************************************************************)
(* C library                                                               *)
(***************************************************************************)
Byte == 0..255

\* memset(buf, 0, n) on a buffer of n bytes
ZeroBuf(n) == [i \in 0..(n - 1) |-> 0]

\* A byte read at offset i of a buffer of n bytes (the buffers of the program
\* always hold a terminating 0, so no read passes the end)
At(buf, n, i) == IF i \in 0..(n - 1) THEN buf[i] ELSE 0

\* The offset of the first 0 byte at or after p
StrEnd(buf, n, p) ==
  CHOOSE e \in p..n : At(buf, n, e) = 0 /\ \A j \in p..(e - 1) : At(buf, n, j) # 0

\* The C string at offset p, as a sequence of bytes
CStr(buf, n, p) == [k \in 1..(StrEnd(buf, n, p) - p) |-> buf[p + k - 1]]

\* strlen
strlen(buf, n, p) == StrEnd(buf, n, p) - p

\* strcpy(dst, s): the bytes of s and the terminating 0; the rest of dst is kept
strcpy(dst, s) ==
  [i \in DOMAIN dst |-> IF i < Len(s) THEN s[i + 1] ELSE IF i = Len(s) THEN 0 ELSE dst[i]]

\* strcmp(a, b) == 0
StrEq(a, b) == a = b

\* A tolower that stops one letter short
tolower_short(c) == IF c \in 65..89 THEN c + 32 ELSE c

\* A tolower that changes nothing
tolower_none(c) == c

\* tolower
tolower(c) == IF c \in 65..90 THEN c + 32 ELSE c

\* int is 16 bits wide on the AVR targets of the sketch
ToInt16(n) == LET m == n % 65536 IN IF m >= 32768 THEN m - 65536 ELSE m

IsSpaceC(c) == c \in {9, 10, 11, 12, 13, 32}
IsDigitC(c) == c \in 48..57

RECURSIVE AtoiDigits(_, _, _)
AtoiDigits(s, i, acc) ==
  IF i <= Len(s) /\ IsDigitC(s[i])
    THEN AtoiDigits(s, i + 1, (acc * 10 + (s[i] - 48)) % 65536)
    ELSE acc

RECURSIVE SkipSpaceC(_, _)
SkipSpaceC(s, i) == IF i <= Len(s) /\ IsSpaceC(s[i]) THEN SkipSpaceC(s, i + 1) ELSE i

\* atoi: optional white space, optional sign, leading decimal digits; 0 when
\* there are none
atoi(s) ==
  LET i == SkipSpaceC(s, 1)
      neg == i <= Len(s) /\ s[i] = 45
      j == IF i <= Len(s) /\ s[i] \in {43, 45} THEN i + 1 ELSE i
      mag == AtoiDigits(s, j, 0)
  IN ToInt16(IF neg THEN 0 - mag ELSE mag)


\* A local variable: F applied to the value v, which is computed once
With(v, F(_)) == CHOOSE y \in { F(x) : x \in {v} } : TRUE

(***************************************************************************)
(* The machine: the program's globals, the Serial output and hardware      *)
(* trace of the step being executed, and the state of the SPI library and  *)
(* of the slave-select pin.  The operators below take a machine and return *)
(* the machine after the C function has run.                               *)
(***************************************************************************)
Cur ==
  [ line_buf |-> line_buf, cp |-> cp, args |-> args, olds |-> olds,
    error_flag |-> error_flag, out |-> out, hw |-> hw, called |-> called,
    toks |-> toks, spi_active |-> spi_active, ss_level |-> ss_level,
    rx |-> rx, fed |-> fed, ovf |-> ovf, cmdline |-> cmdline,
    ev |-> ev, ret |-> ret ]

\* A program step starts with nothing written and nothing called
Start == [Cur EXCEPT !.out = <<>>, !.hw = <<>>, !.called = <<>>]

\* Serial.write / Serial.print / Serial.println
Emit(m, evs) == [m EXCEPT !.out = @ \o evs]

\* digitalWrite on the slave-select pin moves its latch
SsAfter(m, call) ==
  IF call.op = "digitalWrite" /\ call.a = SPI_SSPIN THEN call.b ELSE m.ss_level

\* SPI.beginTransaction opens the transaction, SPI.endTransaction closes it
SpiAfter(m, call) ==
  IF call.op = "beginTransaction" THEN TRUE
  ELSE IF call.op = "endTransaction" THEN FALSE
  ELSE m.spi_active

\* One call of a pin, SPI or delay primitive
HwCall(m, call) ==
  [m EXCEPT !.hw = Append(@, call),
            !.ss_level = SsAfter(m, call),
            !.spi_active = SpiAfter(m, call)]

\* A handler has been entered
Enter(m, name) == [m EXCEPT !.called = Append(@, name)]

(***************************************************************************)
(* strtok(instr, " ") on line_buf.  from is the offset scanning starts at  *)
(* (0 for instr = line_buf, the saved position for instr = NULL).          *)
(* Result: the machine (delimiter overwritten, position saved), whether a  *)
(* token was found, and its offset.                                        *)
(***************************************************************************)
TokBegin(buf, from) ==
  CHOOSE b \in from..LINE_BUF_SIZE :
     At(buf, LINE_BUF_SIZE, b) # SPACE_CHAR
     /\ \A j \in from..(b - 1) : At(buf, LINE_BUF_SIZE, j) = SPACE_CHAR

TokEnd(buf, b) ==
  CHOOSE e \in b..LINE_BUF_SIZE :
     At(buf, LINE_BUF_SIZE, e) \in {0, SPACE_CHAR}
     /\ \A j \in b..(e - 1) : At(buf, LINE_BUF_SIZE, j) \notin {0, SPACE_CHAR}

\* A strtok that saves the position of the delimiter it has overwritten
strtok_end_stuck(m, b, e) ==
  IF At(m.line_buf, LINE_BUF_SIZE, e) = 0
    THEN [m |-> [m EXCEPT !.olds = e], found |-> TRUE, at |-> b]
    ELSE [m |-> [m EXCEPT !.line_buf[e] = 0, !.olds = e], found |-> TRUE, at |-> b]

strtok_end(m, b, e) ==
  IF At(m.line_buf, LINE_BUF_SIZE, e) = 0
    THEN [m |-> [m EXCEPT !.olds = e], found |-> TRUE, at |-> b]
    ELSE [m |-> [m EXCEPT !.line_buf[e] = 0, !.olds = e + 1], found |-> TRUE, at |-> b]

strtok_begin(m, b) ==
  IF At(m.line_buf, LINE_BUF_SIZE, b) = 0
    THEN [m |-> [m EXCEPT !.olds = b], found |-> FALSE, at |-> b]
    ELSE strtok_end(m, b, TokEnd(m.line_buf, b))

strtok(m, from) ==
  IF from = NULLPTR THEN [m |-> m, found |-> FALSE, at |-> 0]
  ELSE strtok_begin(m, TokBegin(m.line_buf, from))

\* A size check that lets ARG_BUF_SIZE bytes through
TokenFits_through(len) == len <= ARG_BUF_SIZE

\* The size check of get_token: strlen(token) < ARG_BUF_SIZE
TokenFits(len) == len < ARG_BUF_SIZE

\* One entry of toks: how the call was made, the token strtok returned (cand),
\* the status, and what the call left in args (yield)
TokRec(m, reset, st, cand) ==
  [reset |-> reset, st |-> st, cand |-> cand, yield |-> CStr(m.args, ARG_BUF_SIZE, 0)]

Note(m, reset, st, cand) == [m EXCEPT !.toks = Append(@, TokRec(m, reset, st, cand))]

\* get_token after strtok has returned r: token NULL, token that fits, token
\* too long
get_token_copy(r, reset, tok) ==
  IF ~r.found
    THEN Note(r.m, reset, "EndOfLine", <<>>)
  ELSE IF TokenFits(Len(tok))
    THEN Note([r.m EXCEPT !.args = strcpy(@, tok)], reset, "Found", tok)
  ELSE Note([Emit(r.m, <<OutMsg(MSG_TOKEN_TOO_LONG)>>) EXCEPT !.error_flag = TRUE],
            reset, "TooLong", tok)

\* A get_token that resumes the scan whatever instr is
get_token_resume(m, reset) ==
  With(strtok([m EXCEPT !.args[0] = 0], IF m.olds = NULLPTR THEN 0 ELSE m.olds),
       LAMBDA r : get_token_copy(r, reset, CStr(r.m.line_buf, LINE_BUF_SIZE, r.at)))

\* get_token(instr, args): reset is instr = line_buf, otherwise instr = NULL
get_token(m, reset) ==
  With(strtok([m EXCEPT !.args[0] = 0], IF reset THEN 0 ELSE m.olds),
       LAMBDA r : get_token_copy(r, reset, CStr(r.m.line_buf, LINE_BUF_SIZE, r.at)))

\* A parse_cmd that goes on from the saved scan position
parse_cmd_resume(m) == get_token(m, FALSE)

\* parse_cmd
parse_cmd(m) == get_token(m, TRUE)

\* args as a C string
ArgStr(m) == CStr(m.args, ARG_BUF_SIZE, 0)

(***************************************************************************)
(* read_input.  read_input_byte is the body of the while loop for the byte *)
(* c = Serial.read(); ev names the branch taken, "cr" being the return 1.  *)
(***************************************************************************)
\* Room checks that are off by one either way
HasRoom_through_last(m) == m.cp < LINE_BUF_SIZE

HasRoom_one_short(m) == m.cp < LINE_BUF_SIZE - 2

\* The room check before a byte is stored
HasRoom(m) == m.cp < LINE_BUF_SIZE - 1

\* send_prompt
send_prompt(m) == Emit(m, OutBytes(CLI_PROMPT))

\* A backspace branch that moves the cursor and leaves the character in place
Erase_keep(m) ==
  [Emit(m, <<OutByte(BKSP_CHAR), OutByte(SPACE_CHAR), OutByte(BKSP_CHAR)>>)
     EXCEPT !.cp = m.cp - 1, !.ev = "bs"]

\* The backspace branch with cp > line_buf
Erase(m) ==
  [Emit(m, <<OutByte(BKSP_CHAR), OutByte(SPACE_CHAR), OutByte(BKSP_CHAR)>>)
     EXCEPT !.line_buf[m.cp - 1] = 0, !.cp = m.cp - 1, !.ev = "bs"]

\* The branch that stores the byte at cp
Store(m, c) ==
  [Emit(m, <<OutByte(c)>>) EXCEPT !.line_buf[m.cp] = c, !.cp = m.cp + 1, !.ev = "store"]

\* An overflow branch that throws the overflowing byte away too
Overflow_drop(m, c) ==
  [send_prompt(Emit([m EXCEPT !.cp = 0, !.line_buf = ZeroBuf(LINE_BUF_SIZE)],
                    <<OutByte(BELL_CHAR), OutByte(CR_CHAR), OutByte(LF_CHAR)>>))
     EXCEPT !.ev = "overflow", !.ovf = Append(@, Len(m.fed))]

\* The overflow branch: throw the line away, keep the overflowing byte
Overflow(m, c) ==
  [Emit(send_prompt(Emit([m EXCEPT !.cp = 0, !.line_buf = ZeroBuf(LINE_BUF_SIZE)],
                         <<OutByte(BELL_CHAR), OutByte(CR_CHAR), OutByte(LF_CHAR)>>)),
        <<OutByte(c)>>)
     EXCEPT !.line_buf[0] = c, !.cp = 1, !.ev = "overflow", !.ovf = Append(@, Len(m.fed))]

\* Serial.read(): the byte leaves the receive buffer (and joins the history)
SerialRead(m) == [m EXCEPT !.rx = Tail(@), !.fed = Append(@, Head(m.rx))]

\* The CR branch ("*cp == '\0';" is a comparison and changes nothing)
EndOfLine(m) ==
  [Emit(m, <<OutByte(CR_CHAR), OutByte(LF_CHAR)>>)
     EXCEPT !.ev = "cr", !.cmdline = CStr(m.line_buf, LINE_BUF_SIZE, 0)]

\* The branches of the loop body for the byte b just read
read_input_branch(m, b) ==
  IF b = LF_CHAR THEN [m EXCEPT !.ev = "lf"]
  ELSE IF b = CR_CHAR THEN EndOfLine(m)
  ELSE IF b = BKSP_CHAR
    THEN IF m.cp > 0 THEN Erase(m) ELSE [m EXCEPT !.ev = "bs0"]
  ELSE IF HasRoom(m) THEN Store(m, tolower(b)) ELSE Overflow(m, tolower(b))

read_input_byte(m) == read_input_branch(SerialRead(m), Head(m.rx))

\* A loop that goes on reading after the CR
read_input_turn_on(m) == IF m.rx = <<>> THEN m ELSE read_input_byte(m)

\* One turn of while(Serial.available()): nothing happens once the CR has
\* been read (return 1) or when nothing is left (return 0)
read_input_turn(m) == IF m.rx = <<>> \/ m.ev = "cr" THEN m ELSE read_input_byte(m)

\* n turns of the loop, as the first half of them followed by the rest
RECURSIVE read_input_turns(_, _)
read_input_turns(m, n) ==
  IF n = 0 THEN m
  ELSE IF n = 1 THEN read_input_turn(m)
  ELSE With(read_input_turns(m, n \div 2),
            LAMBDA m1 : read_input_turns(m1, n - (n \div 2)))

\* while(Serial.available()) ...: until a CR is read or nothing is left; a
\* turn reads one byte, so there are no more turns than bytes waiting
read_input(m) == read_input_turns(m, Len(m.rx))

(***************************************************************************)
(* The command handlers.  env is what the outside answers during the       *)
(* command: lvl the level digitalRead returns, miso the word the SPI       *)
(* peripheral shifts back, junk the int that cmd_pr's atoi(args[1]) reads  *)
(* from the address its char argument converts to.                         *)
(***************************************************************************)
Return(m, v) == [m EXCEPT !.ret = v]

\* The delay event holds val, the int atoi returned widened to long (delay
\* itself takes it as an unsigned long)
cmd_delay(m) ==
  With(get_token(Enter(m, "cmd_delay"), FALSE), LAMBDA m1 :
    Return(HwCall(m1, HwOp("delay", atoi(ArgStr(m1)), 0)), 0))

\* The lines help_help prints for the first n commands
RECURSIVE HelpList(_)
HelpList(n) ==
  IF n = 0 THEN <<>>
  ELSE HelpList(n - 1)
         \o OutBytes(<<SPACE_CHAR, SPACE_CHAR>> \o commands_str[n] \o <<CR_CHAR, LF_CHAR>>)

help_help(m) ==
  Emit(m, <<OutMsg(MSG_HELP_HEADER)>> \o HelpList(num_commands)
            \o <<OutMsg(MSG_HELP_BLANK), OutMsg(MSG_HELP_HINT)>>)

\* A chain in which "pw" has been given the text of "pr"
HelpTopic_copied(empty, a) ==
  IF empty THEN 0
  ELSE IF StrEq(a, commands_str[1]) THEN HELP_delay
  ELSE IF StrEq(a, commands_str[2]) THEN 0
  ELSE IF StrEq(a, commands_str[3]) THEN HELP_pmode
  ELSE IF StrEq(a, commands_str[4]) THEN HELP_pr
  ELSE IF StrEq(a, commands_str[5]) THEN HELP_pr
  ELSE IF StrEq(a, commands_str[6]) THEN HELP_spiend
  ELSE IF StrEq(a, commands_str[7]) THEN HELP_spirw
  ELSE IF StrEq(a, commands_str[8]) THEN HELP_spirw16
  ELSE IF StrEq(a, commands_str[9]) THEN HELP_spistart
  ELSE 0

\* The if / else-if chain of cmd_help on the argument a; 0 stands for help_help
HelpTopic(empty, a) ==
  IF empty THEN 0
  ELSE IF StrEq(a, commands_str[1]) THEN HELP_delay
  ELSE IF StrEq(a, commands_str[2]) THEN 0
  ELSE IF StrEq(a, commands_str[3]) THEN HELP_pmode
  ELSE IF StrEq(a, commands_str[4]) THEN HELP_pr
  ELSE IF StrEq(a, commands_str[5]) THEN HELP_pw
  ELSE IF StrEq(a, commands_str[6]) THEN HELP_spiend
  ELSE IF StrEq(a, commands_str[7]) THEN HELP_spirw
  ELSE IF StrEq(a, commands_str[8]) THEN HELP_spirw16
  ELSE IF StrEq(a, commands_str[9]) THEN HELP_spistart
  ELSE 0

\* cmd_help ends without a return statement: its int result is whatever the
\* return register holds
cmd_help(m, env) ==
  With(get_token(Enter(m, "cmd_help"), FALSE), LAMBDA m1 :
    With(HelpTopic(m1.args[0] = 0, ArgStr(m1)), LAMBDA topic :
      Return(IF topic = 0 THEN help_help(m1) ELSE Emit(m1, <<OutMsg(topic)>>), env.junk)))

\* The mode pinMode is called with for the argument a; -1 for none
PmodeOf(a) ==
  IF StrEq(a, pmode_args[1]) THEN INPUT
  ELSE IF StrEq(a, pmode_args[2]) THEN INPUT_PULLUP
  ELSE IF StrEq(a, pmode_args[3]) THEN OUTPUT
  ELSE -1

cmd_pmode(m) ==
  With(get_token(Enter(m, "cmd_pmode"), FALSE), LAMBDA m1 :
    With(get_token(m1, FALSE), LAMBDA m2 :
      With(PmodeOf(ArgStr(m2)), LAMBDA mode :
        Return(IF mode = -1 THEN m2
               ELSE HwCall(m2, HwOp("pinMode", atoi(ArgStr(m1)), mode)), 0))))

\* pinnum = atoi(args[1]): the char args[1] is taken as the address of the
\* string to convert, so pinnum is what atoi makes of the bytes found there
\* (env.junk); val is what digitalRead returns (env.lvl)
cmd_pr_print(m, val) ==
  IF val = LOW THEN Return(Emit(m, <<OutNum(0)>>), 0)
  ELSE IF val = HIGH THEN Return(Emit(m, <<OutNum(1)>>), 1)
  ELSE Return(m, -1)

cmd_pr(m, env) ==
  cmd_pr_print(HwCall(get_token(Enter(m, "cmd_pr"), FALSE),
                      HwOp("digitalRead", env.junk, env.lvl)), env.lvl)

cmd_pw_write(m, pinnum, val) ==
  IF val = 0 THEN HwCall(m, HwOp("digitalWrite", pinnum, LOW))
  ELSE IF val = 1 THEN HwCall(m, HwOp("digitalWrite", pinnum, HIGH))
  ELSE Emit(m, <<OutMsg(MSG_PW_VALUE_ERROR)>>)

cmd_pw(m) ==
  With(get_token(Enter(m, "cmd_pw"), FALSE), LAMBDA m1 :
    With(get_token(m1, FALSE), LAMBDA m2 :
      Return(cmd_pw_write(m2, atoi(ArgStr(m1)), atoi(ArgStr(m2))), 0)))

\* A cmd_spiend that raises the slave select and leaves the transaction open
cmd_spiend_open(m) ==
  Return(HwCall(Enter(m, "cmd_spiend"), HwOp("digitalWrite", SPI_SSPIN, HIGH)), 0)

cmd_spiend(m) ==
  Return(HwCall(HwCall(Enter(m, "cmd_spiend"), HwOp("digitalWrite", SPI_SSPIN, HIGH)),
                HwOp("endTransaction", 0, 0)), 0)

\* write_val and rx_val are bytes; the transfer event holds (sent, received)
cmd_spirw_transfer(m, write_val, rx_val) ==
  Return(Emit(HwCall(m, HwOp("transfer", write_val, rx_val)), <<OutNum(rx_val)>>), rx_val)

cmd_spirw(m, env) ==
  With(get_token(Enter(m, "cmd_spirw"), FALSE), LAMBDA m1 :
    cmd_spirw_transfer(m1, atoi(ArgStr(m1)) % 256, env.miso % 256))

\* write_val and rx_val are ints; transfer16 takes and returns a uint16_t: the
\* transfer16 event holds (sent, received) as the uint16_t values
cmd_spirw16_transfer(m, write_val, miso, rx_val) ==
  Return(Emit(HwCall(m, HwOp("transfer16", write_val % 65536, miso)), <<OutNum(rx_val)>>),
         rx_val)

cmd_spirw16(m, env) ==
  With(get_token(Enter(m, "cmd_spirw16"), FALSE), LAMBDA m1 :
    cmd_spirw16_transfer(m1, atoi(ArgStr(m1)), env.miso % 65536, ToInt16(env.miso)))

\* order and mode of cmd_spistart from their argument
OrderOf(a) ==
  IF StrEq(a, spistart_arg1[1]) THEN LSBFIRST
  ELSE IF StrEq(a, spistart_arg1[2]) THEN MSBFIRST
  ELSE SPI_ORDER

ModeOf(a) ==
  IF StrEq(a, spistart_arg2[1]) THEN SPI_MODE0
  ELSE IF StrEq(a, spistart_arg2[2]) THEN SPI_MODE1
  ELSE IF StrEq(a, spistart_arg2[3]) THEN SPI_MODE2
  ELSE IF StrEq(a, spistart_arg2[4]) THEN SPI_MODE3
  ELSE SPI_MODE

\* A cmd_spistart that asserts slave select before the transaction is begun
cmd_spistart_open_early(m, order, mode) ==
  HwCall(HwCall(HwCall(HwCall(m, HwOp("pinMode", SPI_SSPIN, OUTPUT)),
                       HwOp("begin", 0, 0)),
                HwOp("digitalWrite", SPI_SSPIN, LOW)),
         HwOp("beginTransaction", order, mode))

\* The four calls that open the transaction; the beginTransaction event holds
\* (order, mode), the clock being the fixed SPI_SPEED
cmd_spistart_open(m, order, mode) ==
  HwCall(HwCall(HwCall(HwCall(m, HwOp("pinMode", SPI_SSPIN, OUTPUT)),
                       HwOp("begin", 0, 0)),
                HwOp("beginTransaction", order, mode)),
         HwOp("digitalWrite", SPI_SSPIN, LOW))

cmd_spistart(m) ==
  With(get_token(Enter(m, "cmd_spistart"), FALSE), LAMBDA m1 :
    With(get_token(m1, FALSE), LAMBDA m2 :
      Return(cmd_spistart_open(m2, OrderOf(ArgStr(m1)), ModeOf(ArgStr(m2))), 0)))

\* (*commands_func[i])()
CallHandler(name, m, env) ==
  CASE name = "cmd_delay" -> cmd_delay(m)
    [] name = "cmd_help" -> cmd_help(m, env)
    [] name = "cmd_pmode" -> cmd_pmode(m)
    [] name = "cmd_pr" -> cmd_pr(m, env)
    [] name = "cmd_pw" -> cmd_pw(m)
    [] name = "cmd_spiend" -> cmd_spiend(m)
    [] name = "cmd_spirw" -> cmd_spirw(m, env)
    [] name = "cmd_spirw16" -> cmd_spirw16(m, env)
    [] name = "cmd_spistart" -> cmd_spistart(m)

\* The command-table search of execute: the first i whose name equals args
\* (0 when there is none)
RECURSIVE LookupFrom(_, _)
LookupFrom(a, i) ==
  IF i > num_commands THEN 0
  ELSE IF StrEq(a, commands_str[i]) THEN i
  ELSE LookupFrom(a, i + 1)

Lookup(a) == LookupFrom(a, 1)

execute_found(m, env, i) ==
  IF i # 0 THEN CallHandler(commands_func[i], m, env)
  ELSE Return(Emit(m, <<OutMsg(MSG_INVALID_COMMAND)>>), 0)

execute(m, env) ==
  IF m.args[0] = 0
    THEN Return(Emit(m, <<OutMsg(MSG_EMPTY_COMMAND)>>), 0)
    ELSE execute_found(m, env, Lookup(ArgStr(m)))

(***************************************************************************)
(* The control loop.  PinCLI() is read_input(), then on a complete line    *)
(* parse_cmd(), execute() unless error_flag, and the reset for the next    *)
(* command; pc is the position in it.                                      *)
(***************************************************************************)
Commit(m) ==
  /\ line_buf' = m.line_buf
  /\ cp' = m.cp
  /\ args' = m.args
  /\ olds' = m.olds
  /\ error_flag' = m.error_flag
  /\ out' = m.out
  /\ hw' = m.hw
  /\ called' = m.called
  /\ toks' = m.toks
  /\ spi_active' = m.spi_active
  /\ ss_level' = m.ss_level
  /\ rx' = m.rx
  /\ fed' = m.fed
  /\ ovf' = m.ovf
  /\ cmdline' = m.cmdline
  /\ ev' = m.ev
  /\ ret' = m.ret

\* What the outside may answer during a command
MisoWords == {0, 165, 40000}
JunkInts == {0, 7}
Env == [lvl : {LOW, HIGH}, miso : MisoWords, junk : JunkInts]

\* ret = read_input(); without a complete line PinCLI only clears error_flag
PinCLI_read(m) ==
  With(read_input([m EXCEPT !.ev = "idle"]), LAMBDA m1 :
    IF m1.ev = "cr" THEN m1 ELSE [m1 EXCEPT !.error_flag = FALSE])

\* The program moves to machine m and position p
Step(m, p) == Commit(m) /\ pc' = p

\* A loop that never looks at what read_input returned
AfterRead_never(m) == "read"

\* if( ret > 0)
AfterRead(m) == IF m.ev = "cr" THEN "parse" ELSE "read"

ReadInput ==
  /\ pc = "read"
  /\ \E m \in {PinCLI_read(Start)} : Step(m, AfterRead(m))
  /\ UNCHANGED << wire, last_spi >>

\* if(!error_flag)
AfterParse(m) == IF m.error_flag THEN "finish" ELSE "execute"

\* parse_cmd(), and the test of error_flag
ParseCmd ==
  /\ pc = "parse"
  /\ \E m \in {parse_cmd([Start EXCEPT !.ev = "parse"])} : Step(m, AfterParse(m))
  /\ UNCHANGED << wire, last_spi >>

\* The bus state a handler leaves, by the handler's name
SpiCommand(names, before) ==
  IF names = <<"cmd_spistart">> THEN "spistart"
  ELSE IF names = <<"cmd_spiend">> THEN "spiend"
  ELSE before

\* execute(), the handler included
Execute ==
  /\ pc = "execute"
  /\ \E env \in Env :
       \E m \in {execute([Start EXCEPT !.ev = "execute"], env)} :
         Step(m, "finish") /\ last_spi' = SpiCommand(m.called, last_spi)
  /\ UNCHANGED wire

\* An end of cycle that sends no prompt
FinishCycle_silent(m) ==
  [m EXCEPT !.line_buf = ZeroBuf(LINE_BUF_SIZE), !.cp = 0, !.args = ZeroBuf(ARG_BUF_SIZE),
            !.error_flag = FALSE, !.toks = <<>>, !.ev = "finish", !.ret = 0,
            !.fed = <<>>, !.ovf = <<>>, !.cmdline = <<>>]

\* An end of cycle that leaves args and error_flag as the command left them
FinishCycle_dirty(m) ==
  [send_prompt([m EXCEPT !.line_buf = ZeroBuf(LINE_BUF_SIZE), !.cp = 0])
     EXCEPT !.toks = <<>>, !.ev = "finish", !.ret = 0,
            !.fed = <<>>, !.ovf = <<>>, !.cmdline = <<>>]

\* "Initialize for next command", send_prompt() and error_flag = false
FinishCycle(m) ==
  [send_prompt([m EXCEPT !.line_buf = ZeroBuf(LINE_BUF_SIZE), !.cp = 0,
                         !.args = ZeroBuf(ARG_BUF_SIZE)])
     EXCEPT !.error_flag = FALSE, !.toks = <<>>, !.ev = "finish", !.ret = 0,
            !.fed = <<>>, !.ovf = <<>>, !.cmdline = <<>>]

Finish ==
  /\ pc = "finish"
  /\ \E m \in {FinishCycle(Start)} : Step(m, "read")
  /\ UNCHANGED << wire, last_spi >>

\* setup(): PinCLI_init has cleared line_buf and printed the banner and the prompt
InitProgram ==
  /\ line_buf = ZeroBuf(LINE_BUF_SIZE)
  /\ cp = 0
  /\ args = ZeroBuf(ARG_BUF_SIZE)
  /\ olds = NULLPTR
  /\ error_flag = FALSE
  /\ pc = "read"
  /\ rx = <<>>
  /\ out = <<OutMsg(MSG_VERSION)>> \o OutBytes(CLI_PROMPT)
  /\ hw = <<>>
  /\ called = <<>>
  /\ toks = <<>>
  /\ spi_active = FALSE
  /\ ss_level = LOW
  /\ fed = <<>>
  /\ ovf = <<>>
  /\ cmdline = <<>>
  /\ last_spi = "none"
  /\ ev = "init"
  /\ ret = 0

(***************************************************************************)
(* Spec: the program fed command lines.  The user sends one CR-terminated  *)
(* line at a time, made of a command word and up to two argument words,    *)
(* and the line is in the receive buffer when the loop polls next.         *)
(***************************************************************************)
Rep(c, n) == [i \in 1..n |-> c]

\* A word of the longest accepted length, and one a byte longer
WORD_FIT == Rep(120, ARG_BUF_SIZE - 1)
WORD_LONG == Rep(120, ARG_BUF_SIZE)

CmdWords ==
  { commands_str[i] : i \in 1..num_commands }
    \cup { <<>>, <<80, 87>>, S_pw \o <<120>>, WORD_FIT, WORD_LONG }
ArgWords1 == { <<>>, <<49, 51>>, <<55>>, S_lsbfirst, S_pw, WORD_LONG }
ArgWords2 == { <<>>, <<49>>, <<50>>, S_o, S_mode3, WORD_LONG }

Sp(w) == IF w = <<>> THEN <<>> ELSE <<SPACE_CHAR>> \o w
CmdLine(c, a, b) == c \o Sp(a) \o Sp(b) \o <<CR_CHAR>>
\* help with each command name
HelpLines == { CmdLine(S_help, commands_str[i], <<>>) : i \in 1..num_commands }

CmdLines ==
  { CmdLine(c, a, b) : c \in CmdWords, a \in ArgWords1, b \in ArgWords2 } \cup HelpLines

Type ==
  /\ pc = "read"
  /\ rx = <<>>
  /\ \E l \in CmdLines : rx' = l
  /\ UNCHANGED << line_buf, cp, args, olds, error_flag, pc, wire, out, hw, called, toks,
                  spi_active, ss_level, fed, ovf, cmdline, last_spi, ev, ret >>

Init == InitProgram /\ wire = <<>>

Next == Type \/ ReadInput \/ ParseCmd \/ Execute \/ Finish

Spec == Init /\ [][Next]_vars


(***************************************************************************)
(* SpecEdit: the program fed keystrokes.  What will be typed is fixed at   *)
(* the start (wire): a short sequence over the editing alphabet, or a run  *)
(* of letters about as long as the line buffer (or twice as long) followed *)
(* by a short tail.  The bytes reach the receive buffer a few at a time.   *)
(***************************************************************************)
MaxFree == 3
MaxTail == 2
MaxBurst == 2
MaxPending == 32

EditAlphabet == {CR_CHAR, LF_CHAR, BKSP_CHAR, SPACE_CHAR, 65, 122}
TailAlphabet == {CR_CHAR, BKSP_CHAR, 122}

SeqsUpTo(S, n) == UNION { [1..k -> S] : k \in 0..n }

\* The upper-case letters A..Z in turn
Fill(n) == [i \in 1..n |-> 65 + (i % 26)]

FillLens ==
  ((LINE_BUF_SIZE - 2)..(LINE_BUF_SIZE + 1)) \cup {LINE_BUF_SIZE + 5}
    \cup ((2 * LINE_BUF_SIZE - 3)..(2 * LINE_BUF_SIZE))

\* The same keystrokes with the shift key held down
UpperAll(s) == [i \in 1..Len(s) |-> IF s[i] >= 97 /\ s[i] <= 122 THEN s[i] - 32 ELSE s[i]]

\* A few sessions of several command lines, typed in lower and in upper case
Sessions ==
  { CmdLine(S_pw, <<49, 51>>, <<49>>) \o CmdLine(S_pr, <<55>>, <<>>),
    CmdLine(S_spistart, <<>>, <<>>) \o CmdLine(S_spirw, <<49, 51>>, <<>>)
      \o CmdLine(S_spiend, <<>>, <<>>),
    CmdLine(S_help, S_pw, <<>>) \o <<CR_CHAR>> \o CmdLine(S_delay, <<45, 53>>, <<>>),
    CmdLine(S_delay, WORD_LONG, <<>>) \o CmdLine(S_delay, S_o, <<>>) }

CommandScripts == Sessions \cup { UpperAll(s) : s \in Sessions }

EditScripts ==
  SeqsUpTo(EditAlphabet, MaxFree)
    \cup { Fill(n) \o t : n \in FillLens, t \in SeqsUpTo(TailAlphabet, MaxTail) }
    \cup CommandScripts

\* The serial port receives the next k typed bytes
Arrive ==
  /\ rx = <<>>
  /\ \E k \in 1..MaxBurst :
       /\ k <= Len(wire)
       /\ rx' = SubSeq(wire, 1, k)
       /\ wire' = SubSeq(wire, k + 1, Len(wire))
  /\ UNCHANGED << line_buf, cp, args, olds, error_flag, pc, out, hw, called, toks,
                  spi_active, ss_level, fed, ovf, cmdline, last_spi, ev, ret >>

\* The serial port has received all that was left to type (the receive buffer
\* is not modelled beyond MaxPending bytes)
ArriveAll ==
  /\ rx = <<>>
  /\ Len(wire) > MaxBurst
  /\ Len(wire) <= MaxPending
  /\ rx' = wire
  /\ wire' = <<>>
  /\ UNCHANGED << line_buf, cp, args, olds, error_flag, pc, out, hw, called, toks,
                  spi_active, ss_level, fed, ovf, cmdline, last_spi, ev, ret >>

InitEdit == InitProgram /\ wire \in EditScripts

NextEdit == Arrive \/ ArriveAll \/ ReadInput \/ ParseCmd \/ Execute \/ Finish

SpecEdit == InitEdit /\ [][NextEdit]_vars

(***************************************************************************)
(* SpecTok: get_token applied to a completed line.  The line is made of up *)
(* to MaxToks words of 1, ARG_BUF_SIZE - 1 or ARG_BUF_SIZE letters (the    *)
(* k-th word of the k-th letter of the alphabet), g spaces between them    *)
(* and g - 1 spaces before and after.  The state is the one read_input     *)
(* leaves when it returns 1; the calls are made in any order.              *)
(***************************************************************************)
MaxToks == 3
MaxGap == 2
MaxCalls == 5

TokLens == {1, ARG_BUF_SIZE - 1, ARG_BUF_SIZE}

RECURSIVE TokLine(_, _, _)
TokLine(lens, k, g) ==
  IF k > Len(lens) THEN Rep(SPACE_CHAR, g - 1)
  ELSE Rep(SPACE_CHAR, IF k = 1 THEN g - 1 ELSE g) \o Rep(96 + k, lens[k])
         \o TokLine(lens, k + 1, g)

TokLines ==
  { l \in { TokLine(lens, 1, g) : lens \in SeqsUpTo(TokLens, MaxToks), g \in 1..MaxGap } :
      Len(l) < LINE_BUF_SIZE }

\* The line in line_buf, the rest of the buffer 0
LineBuf(l) == [i \in 0..(LINE_BUF_SIZE - 1) |-> IF i < Len(l) THEN l[i + 1] ELSE 0]

InitTok ==
  \E l \in TokLines :
    /\ line_buf = LineBuf(l)
    /\ cp = Len(l)
    /\ args = ZeroBuf(ARG_BUF_SIZE)
    /\ olds = NULLPTR
    /\ error_flag = FALSE
    /\ pc = "parse"
    /\ wire = <<>>
    /\ rx = <<>>
    /\ out = <<OutByte(CR_CHAR), OutByte(LF_CHAR)>>
    /\ hw = <<>>
    /\ called = <<>>
    /\ toks = <<>>
    /\ spi_active = FALSE
    /\ ss_level = LOW
    /\ fed = l \o <<CR_CHAR>>
    /\ ovf = <<>>
    /\ cmdline = l
    /\ last_spi = "none"
    /\ ev = "cr"
    /\ ret = 0

\* get_token(line_buf, args)
TokFirst ==
  /\ pc = "parse"
  /\ Len(toks) < MaxCalls
  /\ \E m \in {get_token([Start EXCEPT !.ev = "parse"], TRUE)} : Step(m, "parse")
  /\ UNCHANGED << wire, last_spi >>

\* get_token(NULL, args), once strtok has been given the line
TokNext ==
  /\ pc = "parse"
  /\ toks # <<>>
  /\ Len(toks) < MaxCalls
  /\ \E m \in {get_token([Start EXCEPT !.ev = "parse"], FALSE)} : Step(m, "parse")
  /\ UNCHANGED << wire, last_spi >>

NextTok == TokFirst \/ TokNext

SpecTok == InitTok /\ [][NextTok]_vars


(***************************************************************************)
(* The line editor (checked under SpecEdit)                                *)
(***************************************************************************)
\* The bytes of the line under construction, line_buf[0 .. cp - 1]
LineContent == [k \in 1..cp |-> line_buf[k - 1]]

Lower(c) == IF c >= 65 /\ c <= 90 THEN c + 32 ELSE c

Printable(c) == c \notin {CR_CHAR, LF_CHAR, BKSP_CHAR}

AllPrintable(s) == \A k \in 1..Len(s) : Printable(s[k])

\* What a run of keystrokes does to the line before it: it erases the last e
\* bytes of it and then appends the bytes a.  A backspace erases one byte, LF
\* and CR do nothing, every other byte appends its lower case; a run is its
\* first half followed by its second half.
Join(x, y) ==
  IF y.e <= Len(x.a)
    THEN [e |-> x.e, a |-> SubSeq(x.a, 1, Len(x.a) - y.e) \o y.a]
    ELSE [e |-> x.e + (y.e - Len(x.a)), a |-> y.a]

RECURSIVE Effect(_)
Effect(s) ==
  IF s = <<>> THEN [e |-> 0, a |-> <<>>]
  ELSE IF Len(s) = 1
    THEN IF s[1] = BKSP_CHAR THEN [e |-> 1, a |-> <<>>]
         ELSE IF s[1] \in {CR_CHAR, LF_CHAR} THEN [e |-> 0, a |-> <<>>]
         ELSE [e |-> 0, a |-> <<Lower(s[1])>>]
  ELSE Join(Effect(SubSeq(s, 1, Len(s) \div 2)),
            Effect(SubSeq(s, (Len(s) \div 2) + 1, Len(s))))

\* What a sequence of keystrokes typed on an empty line means: there is
\* nothing before it to erase
Resolve(s) == Effect(s).a

Prefix(s, n) == SubSeq(s, 1, IF Len(s) < n THEN Len(s) ELSE n)

\* The bytes read from the last overflowing byte on (all of them when no
\* overflow has happened)
SinceOverflow == IF ovf = <<>> THEN fed ELSE SubSeq(fed, ovf[Len(ovf)], Len(fed))

\* The last n events written to Serial in the step
LastOut(n) == SubSeq(out, Len(out) - n + 1, Len(out))

\* C1: in every reachable state the cursor is between 0 and LINE_BUF_SIZE - 1
\* and every position of the line buffer from the cursor to the end holds 0.
C1_LineBufferInvariant ==
  /\ DOMAIN line_buf = 0..(LINE_BUF_SIZE - 1)
  /\ cp \in 0..(LINE_BUF_SIZE - 1)
  /\ \A i \in cp..(LINE_BUF_SIZE - 1) : line_buf[i] = 0

\* The buffer is full: the cursor is on the last position
C1_Witness ==
  /\ cp = LINE_BUF_SIZE - 1
  /\ \A i \in 0..(cp - 1) : line_buf[i] # 0
  /\ ev = "store"

\* C2 as stated: when the line is complete its content is the lower-cased,
\* backspace-resolved input cut to its first LINE_BUF_SIZE - 1 bytes.
C2_PrefixOfInput ==
  pc = "parse" => LineContent = Prefix(Resolve(fed), LINE_BUF_SIZE - 1)

\* C2: when the line is complete its content is the lower-cased,
\* backspace-resolved sequence of the bytes read since the last overflow
\* (since the empty line when there was none), LF bytes left out.
C2_ContentAtCompletion ==
  pc = "parse" =>
    /\ LineContent = Resolve(SinceOverflow)
    /\ cmdline = LineContent
    /\ ovf = <<>> => LineContent = Resolve(fed)

\* A line completed after an overflow and an erased byte
C2_Witness ==
  /\ pc = "parse"
  /\ ovf # <<>>
  /\ cp >= 2
  /\ \E k \in 1..Len(fed) : fed[k] = BKSP_CHAR /\ k > ovf[Len(ovf)]

\* C3 as stated: n >= LINE_BUF_SIZE printable bytes and no terminator make
\* exactly one overflow.
C3_ExactlyOneOverflow ==
  (pc = "read" /\ rx = <<>> /\ AllPrintable(fed) /\ Len(fed) >= LINE_BUF_SIZE)
    => Len(ovf) = 1

\* C3: n printable bytes and no terminator, fed from the empty line, make
\* (n - 1) \div (LINE_BUF_SIZE - 1) overflows (none for n = 0): exactly one for
\* LINE_BUF_SIZE <= n <= 2 * LINE_BUF_SIZE - 2, LINE_BUF_SIZE + 5 included; and
\* the step in which a byte overflows writes bell, CR, LF and the prompt.
C3_OverflowCount ==
  /\ (pc = "read" /\ rx = <<>> /\ AllPrintable(fed)) =>
       /\ Len(ovf) = (IF fed = <<>> THEN 0 ELSE (Len(fed) - 1) \div (LINE_BUF_SIZE - 1))
       /\ (Len(fed) >= LINE_BUF_SIZE /\ Len(fed) <= 2 * LINE_BUF_SIZE - 2) => Len(ovf) = 1
       /\ \A k \in 1..Len(ovf) : ovf[k] = k * (LINE_BUF_SIZE - 1) + 1
  /\ ev = "overflow" =>
       SubSeq(LastOut(6), 1, 5) =
         <<OutByte(BELL_CHAR), OutByte(CR_CHAR), OutByte(LF_CHAR)>> \o OutBytes(CLI_PROMPT)

\* LINE_BUF_SIZE + 5 printable bytes have been read: one overflow
C3_Witness ==
  /\ pc = "read"
  /\ rx = <<>>
  /\ AllPrintable(fed)
  /\ Len(fed) = LINE_BUF_SIZE + 5
  /\ Len(ovf) = 1

\* The state the overflow of byte c leaves, and what the step wrote
C4_Restarted(c) ==
  /\ pc' = "read"
  /\ cp' = 1
  /\ line_buf' = [i \in 0..(LINE_BUF_SIZE - 1) |-> IF i = 0 THEN Lower(c) ELSE 0]
  /\ out' = <<OutByte(BELL_CHAR), OutByte(CR_CHAR), OutByte(LF_CHAR)>>
              \o OutBytes(CLI_PROMPT) \o <<OutByte(Lower(c))>>

\* C4: a byte other than CR, LF and backspace read while the cursor is at
\* LINE_BUF_SIZE - 1 does not complete the line; the buffer is zeroed, the line
\* restarts with that byte lower-cased (cursor 1), and bell, CR, LF, the prompt
\* and then the byte are written; the bytes read after it are appended to it.
C4_OverflowRestart ==
  /\ [][(pc = "read" /\ cp = LINE_BUF_SIZE - 1 /\ Len(rx) = 1 /\ Printable(rx[1]))
          => C4_Restarted(rx[1])]_vars
  /\ [](ev = "overflow" =>
          /\ pc = "read"
          /\ cp = 1
          /\ line_buf[0] = Lower(fed[Len(fed)])
          /\ LastOut(1) = <<OutByte(line_buf[0])>>)
  /\ []((ovf # <<>> /\ AllPrintable(SinceOverflow)) =>
          /\ cp = Len(SinceOverflow)
          /\ \A k \in 1..cp : line_buf[k - 1] = Lower(SinceOverflow[k]))

\* Two bytes were appended after the one that overflowed
C4_Witness ==
  /\ pc = "read"
  /\ ovf # <<>>
  /\ AllPrintable(SinceOverflow)
  /\ cp = 3
  /\ ev = "store"


(***************************************************************************)
(* The token cursor (checked under SpecTok)                                *)
(***************************************************************************)
\* The maximal runs of non-space bytes of s, in order
RECURSIVE Split(_)
Split(s) ==
  IF s = <<>> THEN <<>>
  ELSE IF s[1] = SPACE_CHAR THEN Split(Tail(s))
  ELSE LET n == CHOOSE k \in 1..Len(s) :
                  /\ \A j \in 1..k : s[j] # SPACE_CHAR
                  /\ (k = Len(s) \/ s[k + 1] = SPACE_CHAR)
       IN <<SubSeq(s, 1, n)>> \o Split(SubSeq(s, n + 1, Len(s)))

\* The calls so far are one get_token(line_buf, ..) and then get_token(NULL, ..)
OneScan == toks # <<>> /\ toks[1].reset /\ \A k \in 2..Len(toks) : ~toks[k].reset

\* C6: get_token accepts the candidate token exactly when it is at most
\* ARG_BUF_SIZE - 1 bytes long, and then args holds it; a candidate of
\* ARG_BUF_SIZE bytes or more leaves args empty, sets error_flag and prints
\* "Token too long."; args always holds a 0-terminated string of at most
\* ARG_BUF_SIZE - 1 bytes.
C6_TokenLengthLimit ==
  /\ DOMAIN args = 0..(ARG_BUF_SIZE - 1)
  /\ \E i \in 0..(ARG_BUF_SIZE - 1) : args[i] = 0
  /\ Len(CStr(args, ARG_BUF_SIZE, 0)) <= ARG_BUF_SIZE - 1
  /\ \A k \in 1..Len(toks) :
       /\ toks[k].st = "Found" <=>
            (toks[k].cand # <<>> /\ Len(toks[k].cand) <= ARG_BUF_SIZE - 1)
       /\ toks[k].st = "TooLong" <=> Len(toks[k].cand) >= ARG_BUF_SIZE
       /\ toks[k].st = "Found" => toks[k].yield = toks[k].cand
       /\ toks[k].st # "Found" => toks[k].yield = <<>>
       /\ toks[k].st = "TooLong" => error_flag
  /\ (toks # <<>> /\ toks[Len(toks)].st = "TooLong") =>
       (args[0] = 0 /\ out = <<OutMsg(MSG_TOKEN_TOO_LONG)>>)
  /\ (toks # <<>> /\ toks[Len(toks)].st = "Found") =>
       (CStr(args, ARG_BUF_SIZE, 0) = toks[Len(toks)].cand /\ out = <<>>)

\* A token of ARG_BUF_SIZE - 1 bytes was accepted and the next, one byte
\* longer, refused
C6_Witness ==
  /\ Len(toks) >= 2
  /\ toks[Len(toks) - 1].st = "Found"
  /\ Len(toks[Len(toks) - 1].yield) = ARG_BUF_SIZE - 1
  /\ toks[Len(toks)].st = "TooLong"
  /\ Len(toks[Len(toks)].cand) = ARG_BUF_SIZE

\* C7: on a line of N tokens, each of at most ARG_BUF_SIZE - 1 bytes, one
\* get_token(line_buf, ..) followed by get_token(NULL, ..) calls yields the N
\* tokens in order in the first N calls, and the empty token (end of line) in
\* the call N + 1 and in every later one.
C7_TokensInOrder ==
  (OneScan /\ \A j \in 1..Len(Split(cmdline)) : Len(Split(cmdline)[j]) <= ARG_BUF_SIZE - 1)
    => \A k \in 1..Len(toks) :
         IF k <= Len(Split(cmdline))
           THEN toks[k].st = "Found" /\ toks[k].yield = Split(cmdline)[k]
           ELSE toks[k].st = "EndOfLine" /\ toks[k].yield = <<>>

\* Three tokens with spaces before, between and after; five calls
C7_Witness ==
  /\ OneScan
  /\ Len(Split(cmdline)) = 3
  /\ \A j \in 1..3 : Len(Split(cmdline)[j]) <= ARG_BUF_SIZE - 1
  /\ cmdline[1] = SPACE_CHAR
  /\ cmdline[Len(cmdline)] = SPACE_CHAR
  /\ Len(toks) = 5
  /\ toks[4].st = "EndOfLine"
  /\ toks[5].st = "EndOfLine"

\* C8: two get_token(line_buf, ..) calls in a row on the same line yield the
\* same first token.
C8_ResetIsIdempotent ==
  \A k \in 2..Len(toks) :
    (toks[k].reset /\ toks[k - 1].reset) =>
      /\ toks[k].yield = toks[k - 1].yield
      /\ toks[k].st = toks[k - 1].st
      /\ toks[k].st = "Found" => toks[k].yield = Split(cmdline)[1]

\* Two such calls in a row on a line whose first token was followed by a
\* space, now overwritten
C8_Witness ==
  /\ Len(toks) >= 2
  /\ toks[Len(toks)].reset
  /\ toks[Len(toks) - 1].reset
  /\ toks[Len(toks)].st = "Found"
  /\ Len(Split(cmdline)) >= 2
  /\ \E i \in 0..(cp - 1) : cmdline[i + 1] = SPACE_CHAR /\ line_buf[i] = 0


(***************************************************************************)
(* Dispatch and the SPI bus (checked under Spec)                           *)
(***************************************************************************)
\* The names of the primitives called in the step
HwOps == { hw[k].op : k \in 1..Len(hw) }

\* C5 as stated: in a command cycle in which a token extraction has set
\* error_flag, on the command token or on an argument token pulled by a
\* handler, no pin, delay or SPI primitive is called.
C5_NoHardwareAfterTooLong ==
  (pc = "finish" /\ error_flag) => hw = <<>>

\* Each command name with the handler of that command
C9_HandlerOf ==
  { <<S_delay, "cmd_delay">>, <<S_help, "cmd_help">>, <<S_pmode, "cmd_pmode">>,
    <<S_pr, "cmd_pr">>, <<S_pw, "cmd_pw">>, <<S_spiend, "cmd_spiend">>,
    <<S_spirw, "cmd_spirw">>, <<S_spirw16, "cmd_spirw16">>,
    <<S_spistart, "cmd_spistart">> }

\* C9: execute on the first token: empty, it prints the empty-command notice,
\* returns 0 and calls no handler; equal to one of the nine command names, it
\* calls the handler of that command once and no other; anything else, it
\* prints the invalid-command notice, returns 0 and calls no handler.
C9_Dispatch ==
  ev = "execute" =>
    /\ toks[1].yield = <<>> =>
         (out = <<OutMsg(MSG_EMPTY_COMMAND)>> /\ ret = 0 /\ called = <<>> /\ hw = <<>>)
    /\ \A p \in C9_HandlerOf : toks[1].yield = p[1] => called = <<p[2]>>
    /\ (toks[1].yield # <<>> /\ \A p \in C9_HandlerOf : toks[1].yield # p[1]) =>
         (out = <<OutMsg(MSG_INVALID_COMMAND)>> /\ ret = 0 /\ called = <<>> /\ hw = <<>>)

\* The last command of the table was typed and its handler called
C9_Witness ==
  /\ ev = "execute"
  /\ toks[1].yield = S_spistart
  /\ called = <<"cmd_spistart">>
  /\ Len(hw) = 4

\* What a call of execute does to the bus
C10_ExecuteStep ==
  (pc = "execute" /\ pc' = "finish") =>
    /\ called' = <<"cmd_spistart">> => (spi_active' /\ "beginTransaction" \in HwOps')
    /\ called' = <<"cmd_spiend">> => (~spi_active' /\ "endTransaction" \in HwOps')
    /\ called' = <<"cmd_spirw">> => (spi_active' = spi_active /\ "transfer" \in HwOps')
    /\ called' = <<"cmd_spirw16">> => (spi_active' = spi_active /\ "transfer16" \in HwOps')
    /\ called' \notin {<<"cmd_spistart">>, <<"cmd_spiend">>} => spi_active' = spi_active

\* C10: the transaction is closed at the start, open exactly when the last
\* spistart or spiend executed was spistart, and left as it is by spirw,
\* spirw16 and every other command and step; spirw and spirw16 transfer, and
\* spistart begins a transaction, whatever the state.
C10_BusStateMachine ==
  /\ ~spi_active
  /\ [](spi_active <=> last_spi = "spistart")
  /\ [][C10_ExecuteStep]_vars
  /\ [][pc # "execute" => spi_active' = spi_active]_vars

\* A transfer has been made with no transaction open
C10_Witness ==
  /\ ev = "execute"
  /\ called = <<"cmd_spirw">>
  /\ ~spi_active
  /\ last_spi = "spiend"
  /\ "transfer" \in HwOps


(***************************************************************************)
(* The SPI commands (checked under Spec)                                   *)
(***************************************************************************)
\* The handler called in the step just taken by execute
Ran(name) == ev = "execute" /\ called = <<name>>

\* C11: spistart sets the slave-select pin to output, begins the bus and the
\* transaction and only then drives slave select LOW; a transfer command
\* leaves the pin and the transaction as they are, so that after spistart and
\* any number of spirw / spirw16 the pin is LOW and the transaction open at
\* every transfer; spirw makes exactly one byte transfer and prints the byte
\* received; spiend drives the pin HIGH and then ends the transaction.
C11_SpiSequence ==
  /\ [](Ran("cmd_spistart") =>
          /\ hw[1] = HwOp("pinMode", SPI_SSPIN, OUTPUT)
          /\ hw[2] = HwOp("begin", 0, 0)
          /\ hw[3].op = "beginTransaction"
          /\ hw[4] = HwOp("digitalWrite", SPI_SSPIN, LOW)
          /\ Len(hw) = 4
          /\ spi_active /\ ss_level = LOW)
  /\ [](Ran("cmd_spirw") =>
          /\ Len(hw) = 1
          /\ hw[1].op = "transfer"
          /\ hw[1].a \in 0..255 /\ hw[1].b \in 0..255
          /\ out[Len(out)] = OutNum(hw[1].b)
          /\ ret = hw[1].b)
  /\ [](Ran("cmd_spirw16") =>
          /\ Len(hw) = 1
          /\ hw[1].op = "transfer16"
          /\ out[Len(out)] = OutNum(ToInt16(hw[1].b)))
  /\ [](Ran("cmd_spiend") =>
          /\ hw = <<HwOp("digitalWrite", SPI_SSPIN, HIGH), HwOp("endTransaction", 0, 0)>>
          /\ ~spi_active /\ ss_level = HIGH)
  /\ [][(called' \in {<<"cmd_spirw">>, <<"cmd_spirw16">>} \/ pc # "execute")
          => (ss_level' = ss_level /\ spi_active' = spi_active)]_vars
  /\ [](last_spi = "spistart" => (spi_active /\ ss_level = LOW))
  /\ [](last_spi = "spiend" => (~spi_active /\ ss_level = HIGH))

\* A byte is transferred in the transaction spistart has opened
C11_Witness ==
  /\ Ran("cmd_spirw")
  /\ last_spi = "spistart"
  /\ spi_active
  /\ ss_level = LOW
  /\ hw = <<HwOp("transfer", 13, 165)>>
  /\ out = <<OutNum(165)>>


\* The k-th word of the completed line (empty when there is none)
Word(k) == IF k <= Len(Split(cmdline)) THEN Split(cmdline)[k] ELSE <<>>

\* The order and the mode spistart is to use for its two argument words
C12_Order == IF Word(2) = S_lsbfirst THEN LSBFIRST ELSE MSBFIRST

C12_Mode ==
  IF Word(3) = S_mode1 THEN SPI_MODE1
  ELSE IF Word(3) = S_mode2 THEN SPI_MODE2
  ELSE IF Word(3) = S_mode3 THEN SPI_MODE3
  ELSE SPI_MODE0

\* spistart opens the transaction with the order of its first argument and the
\* mode of its second, each on its own, whatever the arguments are
C12_Resolves ==
  Ran("cmd_spistart") =>
    /\ Len(hw) = 4
    /\ hw[3] = HwOp("beginTransaction", C12_Order, C12_Mode)
    /\ spi_active

\* C12 as stated: spistart passes LSB-first exactly when its first argument
\* is "lsbfirst" and MSB-first otherwise, modeK exactly when its second
\* argument is "modeK" and mode0 otherwise; whatever the arguments, the
\* transaction is opened and nothing is printed.
C12_SpistartArguments ==
  /\ C12_Resolves
  /\ Ran("cmd_spistart") => out = <<>>

(***************************************************************************)
(* The pin commands and help (checked under Spec)                          *)
(***************************************************************************)
\* The decimal value of the digits a word starts with (0 when it starts with
\* none, or is missing)
RECURSIVE DecFrom(_, _, _)
DecFrom(w, i, acc) ==
  IF i > Len(w) \/ w[i] < 48 \/ w[i] > 57 THEN acc
  ELSE DecFrom(w, i + 1, 10 * acc + (w[i] - 48))

Dec(w) == DecFrom(w, 1, 0)

\* pw writes the pin of its first argument LOW for the value 0 and HIGH for
\* the value 1, and writes no pin for any other value
C13_Drives ==
  Ran("cmd_pw") =>
    /\ Dec(Word(3)) = 0 => hw = <<HwOp("digitalWrite", Dec(Word(2)), LOW)>>
    /\ Dec(Word(3)) = 1 => hw = <<HwOp("digitalWrite", Dec(Word(2)), HIGH)>>
    /\ Dec(Word(3)) \notin {0, 1} => hw = <<>>

\* C13 as stated: "pw <pin> <value>" drives the pin numbered by the pin token
\* LOW when the value token parses to 0 and HIGH when it parses to 1, and
\* prints nothing; for any other value it prints the error text and writes no
\* pin; a missing or non-numeric value token parses to 0: the pin is driven
\* LOW and nothing is reported.
C13_PinWrite ==
  /\ C13_Drives
  /\ Ran("cmd_pw") =>
       out = (IF Dec(Word(3)) \in {0, 1} THEN <<>> ELSE <<OutMsg(MSG_PW_VALUE_ERROR)>>)

\* C14 as stated: "pr <pin>" reads the pin numbered by the whole pin token and
\* prints one line, 0 if the pin reads low and 1 if it reads high.
C14_PinRead ==
  Ran("cmd_pr") =>
    /\ Len(hw) = 1
    /\ hw[1].op = "digitalRead"
    /\ hw[1].a = Dec(Word(2))
    /\ out = <<OutNum(IF hw[1].b = LOW THEN 0 ELSE 1)>>

\* The usage text of each command other than help
C15_UsageOf ==
  { <<S_delay, HELP_delay>>, <<S_pmode, HELP_pmode>>, <<S_pr, HELP_pr>>,
    <<S_pw, HELP_pw>>, <<S_spiend, HELP_spiend>>, <<S_spirw, HELP_spirw>>,
    <<S_spirw16, HELP_spirw16>>, <<S_spistart, HELP_spistart>> }

\* One line of the command list
C15_Line(name) == OutBytes(<<SPACE_CHAR, SPACE_CHAR>> \o name \o <<CR_CHAR, LF_CHAR>>)

\* The command list: the header, the nine names in table order, the hint
C15_List ==
  <<OutMsg(MSG_HELP_HEADER)>>
    \o C15_Line(S_delay) \o C15_Line(S_help) \o C15_Line(S_pmode) \o C15_Line(S_pr)
    \o C15_Line(S_pw) \o C15_Line(S_spiend) \o C15_Line(S_spirw) \o C15_Line(S_spirw16)
    \o C15_Line(S_spistart)
    \o <<OutMsg(MSG_HELP_BLANK), OutMsg(MSG_HELP_HINT)>>

\* C15: help with the name of a command other than help prints the usage text
\* of that command and not the command list; help with no argument, with
\* "help" or with a word that is no command name prints the command list, the
\* nine names in table order, and no usage text.
C15_Help ==
  Ran("cmd_help") =>
    /\ hw = <<>>
    /\ \A p \in C15_UsageOf : Word(2) = p[1] => out = <<OutMsg(p[2])>>
    /\ (\A p \in C15_UsageOf : Word(2) # p[1]) =>
         /\ Len(out) >= Len(C15_List)
         /\ LastOut(Len(C15_List)) = C15_List
         /\ \A p \in C15_UsageOf : \A k \in 1..Len(out) : out[k] # OutMsg(p[2])

\* "help pw" has printed the usage of pw
C15_Witness ==
  /\ Ran("cmd_help")
  /\ Word(2) = S_pw
  /\ out = <<OutMsg(HELP_pw)>>


(***************************************************************************)
(* The command cycle (checked under SpecEdit)                              *)
(***************************************************************************)
\* How many times the prompt occurs in what the step wrote
PromptCount(s) ==
  Cardinality({ k \in 1..(Len(s) - 1) : SubSeq(s, k, k + 1) = OutBytes(CLI_PROMPT) })

\* A step of the program (the arrival of bytes is a step of the outside)
ProgramStep == wire' = wire

\* C16: the prompt is written once by the initialization and once at the end
\* of every command cycle, whatever the cycle did (handler, empty command,
\* invalid command, command token too long); while the line is being read it
\* is written only by the overflow recovery, once per overflow, and parsing
\* and executing a command write none.
C16_PromptOnce ==
  /\ [](ev = "init" => (out = <<OutMsg(MSG_VERSION)>> \o OutBytes(CLI_PROMPT)))
  /\ [](ev = "finish" => (pc = "read" /\ out = OutBytes(CLI_PROMPT)))
  /\ [](ev \in {"parse", "execute"} => PromptCount(out) = 0)
  /\ [][(ProgramStep /\ pc = "read") => PromptCount(out') = Len(ovf') - Len(ovf)]_vars
  /\ [][(ProgramStep /\ pc = "finish") => (ev' = "finish" /\ PromptCount(out') = 1)]_vars
  /\ [][(ProgramStep /\ pc \in {"parse", "execute"})
          => (pc' \in {"execute", "finish"} /\ PromptCount(out') = 0)]_vars

\* A cycle has ended and more lines are to come
C16_Witness ==
  /\ ev = "finish"
  /\ out = OutBytes(CLI_PROMPT)
  /\ \E k \in 1..Len(wire) : wire[k] = CR_CHAR


\* SpecLoop: loop() calls PinCLI() for ever, so every step of the program
\* that can be taken is taken in the end; nothing is assumed of the bytes that
\* arrive.  What is typed is a session of command lines, a short sequence of
\* keystrokes, or a line that overflows.
LoopScripts ==
  CommandScripts \cup SeqsUpTo(EditAlphabet, MaxFree)
    \cup { Fill(LINE_BUF_SIZE + 1) \o <<CR_CHAR>> }

InitLoop == InitProgram /\ wire \in LoopScripts

SpecLoop ==
  /\ InitLoop
  /\ [][NextEdit]_vars
  /\ WF_vars(ReadInput)
  /\ WF_vars(ParseCmd)
  /\ WF_vars(Execute)
  /\ WF_vars(Finish)

\* A CR is waiting in the receive buffer
LineWaiting == \E k \in 1..Len(rx) : rx[k] = CR_CHAR

\* C17: no input halts the loop: a CR-terminated line that has been received
\* is read in the end, a line that has been read finishes its cycle (the
\* handler, delay with a non-numeric or negative argument included, returns)
\* and the prompt is sent, and the bytes received after it are read in turn.
C17_NeverHalts ==
  /\ (pc = "read" /\ LineWaiting) ~> (pc = "parse")
  /\ (pc = "parse") ~> (ev = "finish")
  /\ (pc = "execute") ~> (ev = "finish" /\ out = OutBytes(CLI_PROMPT))
  /\ (rx # <<>>) ~> (rx = <<>>)

\* delay has been called with a negative number and has returned
C17_Witness ==
  /\ pc = "finish"
  /\ called = <<"cmd_delay">>
  /\ hw = <<HwOp("delay", -5, 0)>>
  /\ rx = <<>>


\* A stream with every letter in lower case
LowerAll(s) == [i \in 1..Len(s) |-> Lower(s[i])]

\* s with the letters at the positions U in upper case and the others in lower
Cased(s, U) ==
  [i \in 1..Len(s) |->
     IF i \in U /\ Lower(s[i]) >= 97 /\ Lower(s[i]) <= 122 THEN Lower(s[i]) - 32
     ELSE Lower(s[i])]

\* The streams that differ from s only in the case of letters: all of them
\* for a short s; for a long one all lower, all upper, and every other letter
CaseVariants(s) ==
  IF Len(s) <= MaxBurst + 1
    THEN { Cased(s, U) : U \in SUBSET (1..Len(s)) }
    ELSE { Cased(s, {}), Cased(s, 1..Len(s)), Cased(s, { i \in 1..Len(s) : i % 2 = 1 }) }

\* What can be seen of a machine: all of it, the bytes received and read
\* taken up to case
Seen(m) == [m EXCEPT !.rx = LowerAll(@), !.fed = LowerAll(@)]

\* The machine at the start of the next step of the cycle
Begin(m, e) == [m EXCEPT !.out = <<>>, !.hw = <<>>, !.called = <<>>, !.ev = e]

\* What is seen after execute and after the end of the cycle, p being the
\* machine parse_cmd has left (execute is not called when error_flag is set)
C18_Executed(p, env) ==
  With(IF p.error_flag THEN p ELSE execute(Begin(p, "execute"), env), LAMBDA x :
    <<Seen(x), Seen(FinishCycle(Begin(x, "finish")))>>)

\* The machines p and q that parse_cmd has left on either side go on alike
C18_SameCycle(p, q) ==
  /\ Seen(p) = Seen(q)
  /\ \A env \in Env : C18_Executed(p, env) = C18_Executed(q, env)

\* The machines a and b that read_input has left on either side are alike, and
\* so are the cycles they start if the line is complete
C18_SameRead(a, b) ==
  /\ Seen(a) = Seen(b)
  /\ a.ev = "cr" =>
       C18_SameCycle(parse_cmd(Begin(a, "parse")), parse_cmd(Begin(b, "parse")))

\* C18: streams that differ only in the case of letters, read from the same
\* state, leave the same line buffer, write the same bytes, call the same
\* handlers and make the same pin and SPI calls, step by step.
C18_CaseInsensitive ==
  (pc = "read" /\ rx # <<>>) =>
    \A v \in CaseVariants(rx) :
      C18_SameRead(PinCLI_read(Start), PinCLI_read([Start EXCEPT !.rx = v]))

\* PW, typed in upper case, has run cmd_pw
C18_Witness ==
  /\ pc = "finish"
  /\ called = <<"cmd_pw">>
  /\ fed[1] = 80
  /\ hw = <<HwOp("digitalWrite", 13, HIGH)>>


\* The position of the first CR of s, 0 when s holds none
FirstCR(s) ==
  IF \E k \in 1..Len(s) : s[k] = CR_CHAR
    THEN CHOOSE k \in 1..Len(s) : s[k] = CR_CHAR /\ \A j \in 1..(k - 1) : s[j] # CR_CHAR
    ELSE 0

\* m with the bytes r waiting in the receive buffer
Waiting(m, r) == [m EXCEPT !.rx = r]

\* The step the program is about to take, from machine m, for the answer env
\* of the outside
C19_StepFrom(m, env) ==
  IF pc = "read" THEN PinCLI_read(m)
  ELSE IF pc = "parse" THEN parse_cmd([m EXCEPT !.ev = "parse"])
  ELSE IF pc = "execute" THEN execute([m EXCEPT !.ev = "execute"], env)
  ELSE FinishCycle(m)

\* The bytes of the line in progress that are waiting: up to the first CR
\* when the loop is about to read, none during a command cycle
C19_OwnBytes ==
  IF pc = "read" /\ FirstCR(rx) > 0 THEN SubSeq(rx, 1, FirstCR(rx)) ELSE <<>>

\* The bytes waiting behind them
C19_Following == SubSeq(rx, Len(C19_OwnBytes) + 1, Len(rx))

\* C19: with several lines waiting, read_input reads up to the first CR and
\* stops; parse, execute and the reset read nothing; what each step does is
\* what it would do with nothing waiting behind the line, so the lines are
\* taken in arrival order and no command sees a byte of a following line.
C19_OneLineAtATime ==
  /\ [][(pc = "read" /\ FirstCR(rx) > 0 /\ ProgramStep) =>
          /\ rx' = SubSeq(rx, FirstCR(rx) + 1, Len(rx))
          /\ fed' = fed \o SubSeq(rx, 1, FirstCR(rx))
          /\ pc' = "parse"]_vars
  /\ [][(pc \in {"parse", "execute"} /\ ProgramStep) =>
          rx' = rx /\ fed' = fed /\ cmdline' = cmdline /\ pc' # "read"]_vars
  /\ [][(pc = "finish" /\ ProgramStep) => rx' = rx /\ pc' = "read"]_vars
  /\ [](pc # "read" => FirstCR(fed) = Len(fed) /\ Len(fed) > 0)
  /\ []((pc # "read" \/ FirstCR(rx) > 0) =>
          \A env \in Env :
            C19_StepFrom(Start, env)
              = Waiting(C19_StepFrom(Waiting(Start, C19_OwnBytes), env), C19_Following))

\* pw has run to its end while the next line, pr 7, is still waiting unread
C19_Witness ==
  /\ pc = "finish"
  /\ called = <<"cmd_pw">>
  /\ hw = <<HwOp("digitalWrite", 13, HIGH)>>
  /\ rx = CmdLine(S_pr, <<55>>, <<>>)

\* C20: when a command cycle has ended, whatever its outcome, line_buf is all
\* zero with the cursor at 0, args is all zero and error_flag is false.
C20_CleanAfterCycle ==
  ev = "finish" =>
    /\ line_buf = ZeroBuf(LINE_BUF_SIZE)
    /\ cp = 0
    /\ args = ZeroBuf(ARG_BUF_SIZE)
    /\ ~error_flag

\* The cycle of a delay with a too long argument has ended (the next line,
\* delay o, is still waiting): the handler had set error_flag
C20_Witness ==
  /\ ev = "finish"
  /\ pc = "read"
  /\ rx = CmdLine(S_delay, S_o, <<>>)
  /\ wire = <<>>
  /\ args = ZeroBuf(ARG_BUF_SIZE)
  /\ ~error_flag


\* Scan positions strtok may have saved before a command cycle starts: none
\* (no call yet), one within or just behind a first word, the end of the buffer
LeftoverScans == {NULLPTR, LINE_BUF_SIZE - 1} \cup (0..ARG_BUF_SIZE)

\* The calls s, made without a reset of the scan
NoReset(s) == \A i \in 1..Len(s) : ~s[i].reset

\* C21: in a command cycle the first get_token call, parse_cmd's, is the only
\* one that resets the scan to the start of the line; the calls of the handler
\* come after it, without a reset; and what parse_cmd leaves does not depend
\* on the scan position saved before the cycle.
C21_ScanResetOnce ==
  /\ [](toks # <<>> => toks[1].reset /\ NoReset(Tail(toks)))
  /\ [](pc = "parse" => toks = <<>>)
  /\ [](pc = "execute" =>
          Len(toks) = 1 /\ olds \in 0..Len(cmdline))
  /\ [][pc = "parse" => Len(toks') = 1 /\ toks'[1].reset]_vars
  /\ [][pc = "execute" =>
          /\ Len(toks') >= Len(toks)
          /\ SubSeq(toks', 1, Len(toks)) = toks
          /\ NoReset(SubSeq(toks', Len(toks) + 1, Len(toks')))]_vars
  /\ [](pc = "parse" =>
          \A o \in LeftoverScans :
            parse_cmd([Start EXCEPT !.olds = o, !.ev = "parse"])
              = parse_cmd([Start EXCEPT !.ev = "parse"]))

\* pw 13 1 has taken its three tokens, after an earlier spistart command
C21_Witness ==
  /\ pc = "finish"
  /\ last_spi = "spistart"
  /\ called = <<"cmd_pw">>
  /\ Len(toks) = 3
  /\ toks[2].yield = <<49, 51>>
  /\ toks[3].yield = <<49>>

\* The machine after the loop body of read_input has taken the byte b, from
\* the present state
C22_After(b) == read_input_byte([Start EXCEPT !.rx = <<b>>, !.ev = "idle"])

\* The echo of an erased character
C22_EraseEcho == <<OutByte(BKSP_CHAR), OutByte(SPACE_CHAR), OutByte(BKSP_CHAR)>>

\* A byte that changes nothing has been taken: m is as the present state
C22_Untouched(m) ==
  /\ m.line_buf = line_buf
  /\ m.cp = cp
  /\ m.out = <<>>
  /\ m.ev # "cr"

\* A backspace has been taken with the cursor above 0
C22_Erased(m) ==
  /\ m.cp = cp - 1
  /\ m.line_buf = [line_buf EXCEPT ![cp - 1] = 0]
  /\ m.out = C22_EraseEcho
  /\ m.ev # "cr"

\* C22: a LF in any state and a backspace at cursor 0 leave line_buf and the
\* cursor as they are, write nothing and do not complete the line; a
\* backspace at a cursor above 0 moves the cursor back by one, zeroes that
\* position and echoes backspace, space, backspace.
C22_LfAndBackspace ==
  /\ [](pc = "read" =>
          /\ C22_Untouched(C22_After(LF_CHAR))
          /\ cp = 0 => C22_Untouched(C22_After(BKSP_CHAR))
          /\ cp > 0 => C22_Erased(C22_After(BKSP_CHAR)))
  /\ [][(pc = "read" /\ ProgramStep /\ rx = <<LF_CHAR>>) =>
          line_buf' = line_buf /\ cp' = cp /\ out' = <<>> /\ pc' = "read"]_vars
  /\ [][(pc = "read" /\ ProgramStep /\ rx = <<BKSP_CHAR>> /\ cp = 0) =>
          line_buf' = line_buf /\ cp' = 0 /\ out' = <<>> /\ pc' = "read"]_vars
  /\ [][(pc = "read" /\ ProgramStep /\ rx = <<BKSP_CHAR>> /\ cp > 0) =>
          /\ cp' = cp - 1
          /\ line_buf' = [line_buf EXCEPT ![cp - 1] = 0]
          /\ out' = C22_EraseEcho
          /\ pc' = "read"]_vars

\* The last character of a full line has been erased
C22_Witness ==
  /\ ev = "bs"
  /\ cp = LINE_BUF_SIZE - 2
  /\ line_buf[cp] = 0
  /\ line_buf[cp - 1] # 0
  /\ out = C22_EraseEcho


\* SpecSpi: the program fed one SPI transfer command with a decimal argument:
\* values within a byte, within 16 bits, and beyond, around the powers of two
\* where a conversion of the sketch changes the value.  The bytes arrive as
\* in SpecEdit, and the bus answers any of MisoWords.
SpiValues == {0, 7, 255, 256, 300, 32767, 32768, 40000, 65535, 65541}

\* v as the user types it, in decimal
RECURSIVE DecDigits(_)
DecDigits(v) == IF v < 10 THEN <<48 + v>> ELSE DecDigits(v \div 10) \o <<48 + (v % 10)>>

SpiScripts ==
  { CmdLine(c, DecDigits(v), <<>>) : c \in {S_spirw, S_spirw16}, v \in SpiValues }

InitSpi == InitProgram /\ wire \in SpiScripts

SpecSpi == InitSpi /\ [][NextEdit]_vars

\* spirw sends the low 8 bits of its argument (the argument itself up to
\* 255) and prints the byte received; spirw16 sends its argument up to 65535
C23_Sends ==
  /\ Ran("cmd_spirw") =>
       /\ hw = <<HwOp("transfer", Dec(Word(2)) % 256, hw[1].b)>>
       /\ Dec(Word(2)) <= 255 => hw[1].a = Dec(Word(2))
       /\ hw[1].b \in 0..255
       /\ out = <<OutNum(hw[1].b)>>
  /\ (Ran("cmd_spirw16") /\ Dec(Word(2)) <= 65535) =>
       /\ hw = <<HwOp("transfer16", Dec(Word(2)), hw[1].b)>>
       /\ hw[1].b \in 0..65535

\* C23 as stated: spirw transfers the byte v (its low 8 bits when v is above
\* 255) and prints the byte received, a number in 0..255; spirw16 transfers
\* the word v and prints the word received, a number in 0..65535.
C23_SpiTransfers ==
  /\ C23_Sends
  /\ Ran("cmd_spirw16") => out = <<OutNum(hw[1].b)>> /\ out[1].v \in 0..65535

\* What spirw16 prints: the word received, taken as a 16-bit signed int
C23_Prints16 ==
  Ran("cmd_spirw16") => out = <<OutNum(ToInt16(hw[1].b))>>
=============================================================================
